---------------------------- MODULE Spec2Model ----------------------------
(***************************************************************************)
(* A model of demoapp.py: one Streamlit session running main() against the *)
(* remote index.  A script run is a pass through main() from the top; it   *)
(* is cut into steps at the remote calls, so that the remote index can     *)
(* change between two calls of the same run.  The session state, the       *)
(* widgets and the remote index persist between runs; the locals of main() *)
(* are written by the run that uses them.                                  *)
(*                                                                         *)
(* The remote index is the environment.  A document that was accepted is   *)
(* first "hidden" (accepted, not yet listed: the case the monitoring loop  *)
(* reports as "Waiting for documents to appear in index"), then "pending"  *)
(* (listed, not indexed), then "indexed".  Every remote call may fail.     *)
(*                                                                         *)
(* The clock counts from the start of the download of the current          *)
(* ingestion run.  It advances by the sleeps of the monitoring loop and by *)
(* the time a status query takes.                                          *)
(***************************************************************************)
EXTENDS Integers, Sequences, FiniteSets, TLC

\* ------------------------------------------------------------ bounds

\* Stems of the files an archive of the first corpus may hold.
MaxDocs == 2
\* A status query takes 0..MaxLatency units of time.
MaxLatency == 1
\* The monitoring loop's max_wait_time (600 s in the source) and
\* check_interval (5 s), on the model's clock.
MaxWait == 2
Interval == 1
\* The files of an archive drawn for the download alone.
MaxFiles == 2
\* The documents of the archive of a single ingestion run.
IngestDocs == 3
\* How far the system clock is set back under the monitoring loop.
MaxSetBack == 1
\* The results and the expected answers of a query whose matches are counted.
MaxResults == 3
MaxAnswers == 2
\* The length of a result's content and of an expected answer, and the
\* expected answers, of a query whose result is highlighted.
MaxContentLen == 3
MaxAnswerLen == 2
MaxQueries == 2
MaxLookups == 3
MaxEvents == 2
MaxCommits == 1
MaxHighlights == 2

\* ------------------------------------------------------------ constants

None == "None"

max_wait_time == MaxWait
check_interval == Interval

\* The keys of PREDEFINED_CORPORA the model follows.
PREDEFINED_CORPORA == {"maud", "cuad"}

\* The one collection name the user types or selects.
CollectionNames == {"default"}

\* The files an archive of a corpus may hold: name = stem + extension.  The
\* archive of "maud" holds up to MaxDocs files; the archive of "cuad" holds
\* no file the download keeps.
\* A file is its directory, its name and what reading it gives: text, only
\* white space, or bytes that are not UTF-8.
Stems(corpus) == IF corpus = "maud" THEN 1..MaxDocs ELSE {}
CandidateFiles(corpus) ==
    {[dir |-> "", stem |-> s, ext |-> ".txt", body |-> "text"] :
        s \in Stems(corpus)}
\* The archives: the first k files, for every k.
Archives(corpus) ==
    {{f \in CandidateFiles(corpus) : f.stem <= k} : k \in 0..MaxDocs}

\* Any file an archive may hold, and the archives of up to n such files.
FetchFiles ==
    {[dir |-> d, stem |-> st, ext |-> e, body |-> b] :
        d \in {"", "sub"}, st \in 1..MaxDocs, e \in {".txt", ".json", ".md"},
        b \in {"text", "blank", "undecodable"}}

SamePath(f, g) == f.dir = g.dir /\ f.stem = g.stem /\ f.ext = g.ext

RECURSIVE ArchivesUpTo(_)
ArchivesUpTo(n) ==
    IF n = 0 THEN {{}}
    ELSE LET smaller == ArchivesUpTo(n - 1)
         IN  smaller \cup
             UNION {{A \cup {f} :
                        f \in {g \in FetchFiles : \A h \in A : ~SamePath(g, h)}} :
                    A \in smaller}

\* The archive of a single ingestion run, and the paths of its documents.
IngestFiles ==
    {[dir |-> "", stem |-> st, ext |-> ".txt", body |-> "text"] :
        st \in 1..IngestDocs}
IngestPaths == {<<"maud", st, ".txt">> : st \in 1..IngestDocs}

\* The sequences over S of length up to n.
SeqsUpTo(S, n) == UNION {[1..k -> S] : k \in 0..n}

\* The characters of contents and answers, the contents and the answers of
\* a query whose matches are counted, and those of a query whose result is
\* highlighted.
Letters == {"a", "A", "m", "Idot"}
MatchContents == {<<"a", "m">>, <<"A">>, <<"m", "M">>}
MatchAnswers == {<<"a">>, <<"M">>, <<"m", "a">>}
HighlightContents == SeqsUpTo(Letters, MaxContentLen) \ {<<>>}
HighlightAnswers == SeqsUpTo(Letters, MaxAnswerLen) \ {<<>>}

\* The paths the remote index may hold.
Paths == {<<c, s, ".txt">> : c \in {"maud"}, s \in 1..MaxDocs}

Latencies == 0..MaxLatency

\* ------------------------------------------------------------ helpers

\* Discovery order of the extracted files (os.walk): the directory first,
\* then its subdirectory; within a directory by name.
FileKey(f) ==
    <<IF f.dir = "" THEN 0 ELSE 1, f.stem,
      IF f.ext = ".json" THEN 0 ELSE IF f.ext = ".md" THEN 1 ELSE 2>>

Precedes(f, g) ==
    LET a == FileKey(f)
        b == FileKey(g)
    IN  \/ a[1] < b[1]
        \/ a[1] = b[1] /\ a[2] < b[2]
        \/ a[1] = b[1] /\ a[2] = b[2] /\ a[3] <= b[3]

RECURSIVE Walk(_)
Walk(files) ==
    IF files = {} THEN <<>>
    ELSE LET f == CHOOSE x \in files : \A y \in files : Precedes(x, y)
         IN  <<f>> \o Walk(files \ {f})

\* file.endswith((".txt", ".json"))
IsCandidate(f) == f.ext \in {".txt", ".json"}

\* open(..., encoding="utf-8").read() raises on bytes that are not UTF-8.
ReadRaises(f) == f.body = "undecodable"

\* content.strip() is not empty.
HasContent(f) == f.body = "text"

\* file.replace('.txt', '').replace('.json', '')
StripExtensions(stem, ext) == IF ext \in {".txt", ".json"} THEN <<stem>> ELSE <<stem, ext>>

RECURSIVE Catalog(_, _)

\* count_tokens(text): the words of the content, a sequence of words.
count_tokens(content) == Len(content)

\* download_corpus: one document per extracted file.
\* id = corpus_name + "_" + file name without ".txt" / ".json".
DocumentOf(corpus_name, f) ==
    [id |-> <<corpus_name>> \o StripExtensions(f.stem, f.ext),
     content |-> <<"word">>,
     filename |-> <<f.stem, f.ext>>, corpus_name |-> corpus_name,
     original_path |-> <<f.stem, f.ext>>]

\* The loop over the extracted files: a document for each candidate file
\* that is read and has content.
Catalog(corpus_name, w) ==
    IF w = <<>> THEN <<>>
    ELSE LET f == Head(w)
         IN  (IF IsCandidate(f) /\ ~ReadRaises(f) /\ HasContent(f)
              THEN <<DocumentOf(corpus_name, f)>> ELSE <<>>)
             \o Catalog(corpus_name, Tail(w))

download_corpus(corpus_name, files) == Catalog(corpus_name, Walk(files))

\* The st.warning calls of download_corpus: one for each candidate file
\* whose reading raised.
download_warnings(files) ==
    Cardinality({f \in files : IsCandidate(f) /\ ReadRaises(f)})

\* tempfile.TemporaryDirectory().__exit__: the directory is removed.
TemporaryDirectoryLeak(exists) == exists
TemporaryDirectoryExit(exists) == FALSE

\* doc_path = f"{doc['id']}.txt"
DocPath(doc) == <<doc.id[1], doc.id[2], ".txt">>

\* path_prefix = f"{corpus_name}_"
HasPrefix(path, corpus_name) == path[1] = corpus_name

\* ------------------------------------------------------------ the remote

\* What an exception of the SDK prints as (str(e)).
ExcConflict == "Error code: 409 - already exists"
ExcOther == "Error code: 500 - internal error"
NoExc == "no exception"

Has409(e) == e = ExcConflict
HasAlreadyExists(e) == e = ExcConflict

\* client.documents.add on a path of status st: the answers the remote can
\* give.  A fresh path is accepted or refused; a held path conflicts or the
\* call fails otherwise.
AddAnswers(st) ==
    IF st = "absent" THEN {NoExc, ExcOther} ELSE {ExcConflict, ExcOther}

\* client.documents.get_info_list(path_prefix): the listed documents.
Listed(ds, corpus_name) ==
    {p \in DOMAIN ds :
        HasPrefix(p, corpus_name) /\ ds[p] \in {"pending", "indexed"}}

\* ------------------------------------------------------------ the program

\* check_corpus_indexed: (total_docs > 0, indexed_docs, total_docs), and
\* (False, 0, 0) when the call raised.
check_corpus_indexed(ok, ds, corpus_name) ==
    IF ok
    THEN LET total_docs == Cardinality(Listed(ds, corpus_name))
             indexed_docs ==
                 Cardinality({p \in Listed(ds, corpus_name) : ds[p] = "indexed"})
         IN  <<total_docs > 0, indexed_docs, total_docs>>
    ELSE <<FALSE, 0, 0>>

\* The upload loop's except clause: the error counts as a failure unless
\* its text holds "409" or "already exists".
CountsAsFailedMutant(e) == e # NoExc
CountsAsFailedSlip(e) == e # NoExc /\ ~Has409(e) /\ HasAlreadyExists(e)
CountsAsFailed(e) == e # NoExc /\ ~Has409(e) /\ ~HasAlreadyExists(e)

\* The monitoring loop's test for the end of indexing.
IndexingCompleteMutant(indexed_count, total_count) == indexed_count = total_count
IndexingComplete(indexed_count, total_count) ==
    indexed_count = total_count /\ total_count > 0

\* The monitoring loop's timeout test.
TimedOutMutant(elapsed) == elapsed >= max_wait_time
TimedOut(elapsed) == elapsed > max_wait_time

\* Step 2's branches on the status of the corpus: ready, partially indexed,
\* and otherwise not indexed.
CorpusReady(corpus_indexed, indexed_count, total_count) ==
    corpus_indexed /\ indexed_count = total_count

CorpusPartialMutant(corpus_indexed, indexed_count, total_count) == FALSE
CorpusPartial(corpus_indexed, indexed_count, total_count) ==
    corpus_indexed /\ indexed_count < total_count

\* Step 3's gate: the query section is withheld.
Step3BlockedMutant(corpus_indexed, indexed_count, total_count) == ~corpus_indexed
Step3Blocked(corpus_indexed, indexed_count, total_count) ==
    ~corpus_indexed \/ indexed_count # total_count

\* ------------------------------------------------------------ strings
\* A string is a sequence of characters.  "Idot" is the capital I with a
\* dot above (U+0130), whose lower case is two characters: "i" and the
\* combining dot above.

LowerChar(c) ==
    IF c = "A" THEN <<"a">>
    ELSE IF c = "M" THEN <<"m">>
    ELSE IF c = "Idot" THEN <<"i", "dot">>
    ELSE <<c>>

\* str.lower()
RECURSIVE lower(_)
lower(str) == IF str = <<>> THEN <<>> ELSE LowerChar(Head(str)) \o lower(Tail(str))

\* sub occurs in str at the 0-based index k.
OccursAt(sub, str, k) ==
    /\ k + Len(sub) <= Len(str)
    /\ \A j \in 1..Len(sub) : str[k + j] = sub[j]

\* sub in str
In(sub, str) == \E k \in 0..Len(str) : OccursAt(sub, str, k)

\* str.find(sub)
find(str, sub) ==
    IF In(sub, str)
    THEN CHOOSE k \in 0..Len(str) :
             /\ OccursAt(sub, str, k)
             /\ \A h \in 0..(k - 1) : ~OccursAt(sub, str, h)
    ELSE -1

\* str[a:b], for 0 <= a
Slice(str, a, b) ==
    LET lo == IF a > Len(str) THEN Len(str) ELSE a
        hi == IF b > Len(str) THEN Len(str) ELSE b
    IN  SubSeq(str, lo + 1, hi)

\* The markup of a highlight: <mark style="..."> and </mark>.
MarkOpen == <<"<", "m", ">">>
MarkClose == <<"<", "/", "m", ">">>

highlight_answer_in_content(content, expected_answer) ==
    IF In(lower(expected_answer), lower(content))
    THEN LET start_idx == find(lower(content), lower(expected_answer))
             end_idx == start_idx + Len(expected_answer)
         IN  IF start_idx # -1
             THEN Slice(content, 0, start_idx)
                  \o MarkOpen \o Slice(content, start_idx, end_idx) \o MarkClose
                  \o Slice(content, end_idx, Len(content))
             ELSE content
    ELSE content

\* The loop over the expected answers for one result: the answers found in
\* the content, and the content highlighted for each of them in turn.
RECURSIVE Annotate(_, _, _)
Annotate(content, highlighted_content, answers_left) ==
    IF answers_left = <<>>
    THEN [highlighted_content |-> highlighted_content, found_answers |-> <<>>]
    ELSE LET answer == Head(answers_left)
         IN  IF In(lower(answer), lower(content))
             THEN LET rest == Annotate(content,
                                       highlight_answer_in_content(
                                           highlighted_content, answer),
                                       Tail(answers_left))
                  IN  [highlighted_content |-> rest.highlighted_content,
                       found_answers |-> <<answer>> \o rest.found_answers]
             ELSE Annotate(content, highlighted_content, Tail(answers_left))

\* What the loop over one result adds to matches_found.
MatchesOnce(found_answers) == IF found_answers = <<>> THEN 0 ELSE 1
MatchesAdded(found_answers) == Len(found_answers)

\* The loop over the results.
RECURSIVE CountMatches(_, _)
CountMatches(items, answers_all) ==
    IF items = <<>> THEN 0
    ELSE MatchesAdded(Annotate(Head(items), Head(items), answers_all).found_answers)
         + CountMatches(Tail(items), answers_all)

\* Dictionary operations on st.session_state.
Put(s, key, v) == [k \in DOMAIN s \cup {key} |-> IF k = key THEN v ELSE s[k]]
Del(s, key) == [k \in DOMAIN s \ {key} |-> s[k]]
Get(s, key) == IF key \in DOMAIN s THEN s[key] ELSE None

\* ------------------------------------------------------------ the scraping script
\* scrape-github.py is a process of its own; email_cache is its module-level
\* dictionary.

Usernames == {"alice", "bob"}

\* An author email of a commit: its local part and its host.
Emails ==
    {[local |-> "dev", host |-> h] :
        h \in {"example.org", "users.noreply.github.com"}}

\* "users.noreply.github.com" in email
IsNoReply(email) == email.host = "users.noreply.github.com"

\* A public event: its type and the author emails of its payload's commits.
Events ==
    {[type |-> t, commits |-> c] :
        t \in {"PushEvent", "WatchEvent"}, c \in SeqsUpTo(Emails, MaxCommits)}

\* What requests.get and raise_for_status give: the decoded list of events,
\* or a RequestException.
Responses ==
    {[ok |-> TRUE, json |-> e] : e \in SeqsUpTo(Events, MaxEvents)}
    \cup {[ok |-> FALSE, json |-> <<>>]}

\* make_api_request: the decoded answer, or None when the request raised.
make_api_request(response) ==
    IF response.ok THEN [none |-> FALSE, json |-> response.json]
    ELSE [none |-> TRUE, json |-> <<>>]

\* The first author email that is not a no-reply address, over the commits
\* in order; <<>> when there is none.
RECURSIVE FirstInCommits(_)
FirstInCommits(commits) ==
    IF commits = <<>> THEN <<>>
    ELSE IF ~IsNoReply(Head(commits)) THEN <<Head(commits)>>
    ELSE FirstInCommits(Tail(commits))

\* The same over the events in order, the push events only.
RECURSIVE FirstEmail(_)
FirstEmail(events) ==
    IF events = <<>> THEN <<>>
    ELSE LET event == Head(events)
             found == IF event.type = "PushEvent"
                      THEN FirstInCommits(event.commits) ELSE <<>>
         IN  IF found # <<>> THEN found ELSE FirstEmail(Tail(events))

NotFoundNoEvents == [local |-> "Not found (no public events)", host |-> ""]
NotFound == [local |-> "Not found", host |-> ""]

\* get_user_email: the cache after the call, the value returned, and
\* whether the request was issued.
get_user_email(cache, username, response) ==
    IF username \in DOMAIN cache
    THEN [email_cache |-> cache, value |-> cache[username], requested |-> FALSE]
    ELSE LET events == make_api_request(response)
             found == FirstEmail(events.json)
             value == IF events.none \/ events.json = <<>> THEN NotFoundNoEvents
                      ELSE IF found # <<>> THEN found[1]
                      ELSE NotFound
         IN  [email_cache |-> Put(cache, username, value), value |-> value,
              requested |-> TRUE]

VARIABLES
    \* the archive source
    archive,            \* corpus -> the files of the archive at its corups_url
    benchmark,          \* corpus -> the tests of the JSON at its queries_url
    \* the remote index
    collections,        \* the collection names the remote holds
    docs,               \* path -> "absent" | "hidden" | "pending" | "indexed"
    \* the session
    session_state,      \* st.session_state: key -> value
    collection_name,    \* the collection name widget
    corpus_selector,    \* the corpus selectbox
    shown,              \* the buttons the last run rendered
    clicked,            \* the button whose click started this run
    \* the run
    pc,
    now,                \* the clock
    documents_to_process,
    i,
    successful_docs,
    failed_docs,
    total_tokens,
    download_time,
    upload_time,
    monitoring_start_time,
    snapshot,           \* <<corpus_indexed, indexed_count, total_count>>
    snapshot_corpus,    \* the corpus the snapshot was taken for
    \* observations
    answers,            \* the answer to each submission of the upload loop
    submitted,          \* the paths submitted by the upload loop, in order
    handed,             \* the paths the remote accepted or already held
    outcome,            \* how the monitoring loop ended
    query_failed,       \* a status query of the monitoring loop failed
    full_in_time,       \* the remote has been fully indexed since an
                        \* instant within max_wait_time of the loop's start
    session_before,     \* the session state when the monitoring loop began
    \* the download
    temp_dir,           \* the temporary directory exists
    warnings,           \* the warnings download_corpus rendered
    fetch_failed,       \* the download of this run raised
    \* the monitoring loop's page
    progress_placeholder,
    progress_fell,      \* a tick of this loop showed a lower fraction than
                        \* the tick before
    ticks,              \* the status queries this loop has made
    status_container,   \* what the loop rendered when it ended
    \* the upload loop's page
    progress_bar,
    \* the query
    results,            \* what top_snippets answers: the contents
    expected_answers,   \* the answers of the current test
    highlighted_contents,
    matches_found,
    query_page,         \* what the handler of "Run Query" rendered
    step3_error,        \* the exception that ended Step 3, not caught
    \* the scraping script
    email_cache,        \* username -> the value cached for it
    lookups,            \* the calls of get_user_email made
    lookup,             \* the last call: username, value, requested
    request_failed      \* the usernames whose last request failed

remote == <<archive, benchmark, collections, docs>>
widgets == <<collection_name, corpus_selector>>
locals == <<documents_to_process, i, successful_docs, failed_docs,
            total_tokens, download_time, upload_time, monitoring_start_time>>
observed == <<answers, submitted, handed, outcome, query_failed,
              full_in_time>>
fetch == <<temp_dir, warnings, fetch_failed>>
progress == <<progress_placeholder, progress_fell, ticks, status_container,
              progress_bar>>
scrape == <<email_cache, lookups, lookup, request_failed>>
evaluation == <<results, expected_answers, highlighted_contents, matches_found,
                query_page, step3_error>>
vars == <<archive, benchmark, collections, docs, session_state, collection_name, corpus_selector,
          shown, clicked, pc, now, documents_to_process, i, successful_docs,
          failed_docs, total_tokens, download_time, upload_time,
          monitoring_start_time, snapshot, snapshot_corpus, answers,
          submitted, handed, outcome, query_failed, full_in_time,
          session_before, temp_dir, warnings, fetch_failed,
          progress_placeholder, progress_fell, ticks, status_container,
          progress_bar, results, expected_answers,
          highlighted_contents, matches_found, query_page, step3_error,
          email_cache, lookups, lookup, request_failed>>

NoLookup == [username |-> None, value |-> NotFound, requested |-> FALSE]

NoSnapshot == <<FALSE, 0, 0>>

\* progress_placeholder = st.empty(), and progress_placeholder.empty()
EmptyPlaceholder ==
    [kind |-> "empty", indexed_count |-> 0, total_count |-> 0,
     elapsed_time |-> 0]

\* status_container = st.container()
EmptyContainer == [kind |-> "empty", counts |-> <<>>, seconds |-> 0]

\* "Timeout reached ({max_wait_time}s). Some documents may still be indexing
\* in the background."
TimeoutWarning == [kind |-> "timeout", counts |-> <<>>, seconds |-> max_wait_time]

\* "Indexing Complete! All {total_count} documents indexed successfully"
CompleteMessage(total_count) ==
    [kind |-> "complete", counts |-> <<total_count>>, seconds |-> 0]

\* progress_bar.empty()
EmptyBar == [kind |-> "empty", done |-> 0, of |-> 1]

\* progress_bar = st.progress(0)
NewBar == [kind |-> "bar", done |-> 0, of |-> 1]

\* progress_bar.progress((i + 1) / len(documents_to_process)): the fraction
\* is kept as its numerator and its denominator.
progress_barSkipsLast(i_, n) == [kind |-> "bar", done |-> i_, of |-> n]
progress_bar_progress(i_, n) == [kind |-> "bar", done |-> i_ + 1, of |-> n]

\* The for loop over documents_to_process has run out of documents.
UploadLoopStopsEarly(i_, n) == i_ >= 1 \/ i_ = n
UploadLoopDone(i_, n) == i_ = n

\* What a tick that did not end the loop writes into the placeholder: the
\* progress bar and "n/m documents completed (p%) | Elapsed", or "Waiting
\* for documents to appear in index... Elapsed".
ProgressReport(indexed_count, total_count, elapsed_time) ==
    IF total_count > 0
    THEN [kind |-> "progress", indexed_count |-> indexed_count,
          total_count |-> total_count, elapsed_time |-> elapsed_time]
    ELSE [kind |-> "waiting", indexed_count |-> 0, total_count |-> 0,
          elapsed_time |-> elapsed_time]

\* The fraction of the report new is lower than the fraction of old.
LowerFraction(old, new) ==
    /\ old.kind = "progress"
    /\ new.kind = "progress"
    /\ new.indexed_count * old.total_count < old.indexed_count * new.total_count

\* The tests of a benchmark of n tests: queries_data["tests"].
Tests(corpus, n) == [k \in 1..n |-> <<corpus, k>>]

OneTestEach == [c \in PREDEFINED_CORPORA |-> Tests(c, 1)]

\* Nothing of the query section's outcome is on the page.
NoPage == [errors |-> 0, results |-> 0, notice |-> "none"]

\* The call raised: st.error("Query failed: ..."), and under the button
\* the warning shown while response is None.
QueryFailedTwice == [errors |-> 2, results |-> 0, notice |-> "please_run"]
QueryFailedPage == [errors |-> 1, results |-> 0, notice |-> "please_run"]

\* The call answered n results holding matches expected answers.
ResultsPage(n, matches) ==
    [errors |-> 0, results |-> n,
     notice |-> IF matches > 0 THEN "found" ELSE "no_expected"]

\* st.session_state.performance_stats of a run that converged.
PerformanceStats(total_time, dl_time, ul_time, total_count, tokens) ==
    [total_time |-> total_time,
     download_time |-> dl_time,
     upload_time |-> ul_time,
     indexing_time |-> total_time - dl_time - ul_time,
     total_count |-> total_count,
     total_tokens |-> tokens]

\* No ingestion run has left anything.
LocalsInit ==
    /\ now = 0
    /\ documents_to_process = <<>>
    /\ i = 0
    /\ successful_docs = 0
    /\ failed_docs = 0
    /\ total_tokens = 0
    /\ download_time = 0
    /\ upload_time = 0
    /\ monitoring_start_time = 0
    /\ answers = <<>>
    /\ submitted = <<>>
    /\ handed = {}
    /\ outcome = None
    /\ query_failed = FALSE
    /\ full_in_time = FALSE
    /\ session_before = [k \in {} |-> None]
    /\ temp_dir = FALSE
    /\ warnings = 0
    /\ fetch_failed = FALSE
    /\ progress_placeholder = EmptyPlaceholder
    /\ progress_fell = FALSE
    /\ ticks = 0
    /\ status_container = EmptyContainer
    /\ progress_bar = EmptyBar
    /\ highlighted_contents = <<>>
    /\ matches_found = 0
    /\ query_page = NoPage
    /\ step3_error = None
    /\ email_cache = [u \in {} |-> NotFound]
    /\ lookups = 0
    /\ lookup = NoLookup
    /\ request_failed = {}

Init ==
    /\ archive \in [PREDEFINED_CORPORA -> UNION {Archives(c) : c \in PREDEFINED_CORPORA}]
    /\ \A c \in PREDEFINED_CORPORA : archive[c] \in Archives(c)
    /\ benchmark = OneTestEach
    /\ collections \in SUBSET CollectionNames
    /\ docs = [p \in Paths |-> "absent"]
    /\ session_state = [k \in {} |-> None]
    /\ collection_name = "default"
    /\ corpus_selector = "maud"
    /\ shown = {}
    /\ clicked = None
    /\ pc = "step1"
    /\ snapshot = NoSnapshot
    /\ snapshot_corpus = None
    /\ results = <<>>
    /\ expected_answers = <<>>
    /\ LocalsInit


\* ------------------------------------------------------------ the remote acts

\* An accepted document appears in the listing.
RemoteShow(p) ==
    /\ docs[p] = "hidden"
    /\ docs' = [docs EXCEPT ![p] = "pending"]

\* A listed document is indexed.
RemoteIndex(p) ==
    /\ docs[p] = "pending"
    /\ docs' = [docs EXCEPT ![p] = "indexed"]

\* The listing for the corpus reports total > 0 and indexed = total.
Full(ds, corpus_name) ==
    LET r == check_corpus_indexed(TRUE, ds, corpus_name)
    IN  r[3] > 0 /\ r[2] = r[3]

InLoop == pc \in {"poll", "sleep"}

\* The remote's progress shows in the answers to status queries only; it is
\* taken where the run's next remote call is a status query, and during
\* the sleep of the monitoring loop.
Remote ==
    /\ pc \in {"step2", "step3", "poll", "sleep"}
    /\ \E p \in DOMAIN docs : RemoteShow(p) \/ RemoteIndex(p)
    /\ full_in_time' =
         IF ~InLoop THEN full_in_time
         ELSE IF ~Full(docs', corpus_selector) THEN FALSE
         ELSE IF Full(docs, corpus_selector) THEN full_in_time
         ELSE now - monitoring_start_time <= max_wait_time
    /\ UNCHANGED <<archive, benchmark, collections, session_state, widgets,
                   shown, clicked,
                   pc, now, locals, snapshot, snapshot_corpus, answers, submitted,
                   handed, outcome, query_failed, session_before>>
    /\ UNCHANGED <<fetch, progress, evaluation>>
    /\ UNCHANGED scrape

\* ------------------------------------------------------------ the user acts

Buttons == {"setup", "check_status", "force_reindex", "download",
            "check_indexing", "random_question", "run_query"}

\* A run renders the page anew: what the last run rendered is gone.
PageCleared ==
    /\ highlighted_contents' = <<>>
    /\ matches_found' = 0
    /\ query_page' = NoPage
    /\ step3_error' = None

\* A script run starts from the top of main().
StartRun(button) ==
    /\ pc' = "step1"
    /\ clicked' = button
    /\ shown' = {}
    /\ snapshot' = NoSnapshot
    /\ snapshot_corpus' = None

UserReruns ==
    /\ pc = "idle"
    /\ StartRun(None)
    /\ UNCHANGED <<remote, session_state, widgets, now, locals, observed,
                   session_before>>
    /\ UNCHANGED <<temp_dir, warnings, progress, results, expected_answers>>
    /\ PageCleared
    /\ fetch_failed' = FALSE
    /\ UNCHANGED scrape

UserTypesCollectionName(name) ==
    /\ pc = "idle"
    /\ name # collection_name
    /\ collection_name' = name
    /\ StartRun(None)
    /\ UNCHANGED <<remote, session_state, corpus_selector, now, locals,
                   observed, session_before>>
    /\ UNCHANGED <<temp_dir, warnings, progress, results, expected_answers>>
    /\ PageCleared
    /\ fetch_failed' = FALSE
    /\ UNCHANGED scrape

UserSelectsCorpus(corpus) ==
    /\ pc = "idle"
    /\ corpus # corpus_selector
    /\ corpus_selector' = corpus
    /\ StartRun(None)
    /\ UNCHANGED <<remote, session_state, collection_name, now, locals,
                   observed, session_before>>
    /\ UNCHANGED <<temp_dir, warnings, progress, results, expected_answers>>
    /\ PageCleared
    /\ fetch_failed' = FALSE
    /\ UNCHANGED scrape

UserClicks(button) ==
    /\ pc = "idle"
    /\ button \in shown
    /\ StartRun(button)
    /\ UNCHANGED <<remote, session_state, widgets, now, locals, observed,
                   session_before>>
    /\ UNCHANGED <<temp_dir, warnings, progress, results, expected_answers>>
    /\ PageCleared
    /\ fetch_failed' = FALSE
    /\ UNCHANGED scrape

\* st.rerun(): the run is abandoned and main() starts again, no button
\* clicked.
Rerun == StartRun(None)

\* The run ends; the page waits for the user.
EndRun(buttons) ==
    /\ pc' = "idle"
    /\ shown' = buttons
    /\ clicked' = None
    /\ snapshot' = NoSnapshot
    /\ snapshot_corpus' = None

\* st.stop(): the run ends here.
st_stopMutant(buttons) ==
    /\ pc' = "upload"
    /\ shown' = buttons
    /\ UNCHANGED <<clicked, snapshot, snapshot_corpus>>
st_stop(buttons) == EndRun(buttons)

\* ------------------------------------------------------------ Step 1

\* create_or_get_collection: the answers of client.collections.add.
CreateAnswers(name) ==
    IF name \in collections THEN {ExcConflict, ExcOther} ELSE {NoExc, ExcOther}

create_or_get_collectionMutant(e) == TRUE
create_or_get_collection(e) == e = NoExc \/ Has409(e) \/ HasAlreadyExists(e)

SetupButton == IF collection_name # "" THEN {"setup"} ELSE {}

\* fetch_existing_collections raises: the run ends with the exception.
Step1FetchFails ==
    /\ pc = "step1"
    /\ EndRun({})
    /\ UNCHANGED <<remote, session_state, widgets, now, locals, observed,
                   session_before>>
    /\ UNCHANGED <<fetch, progress, evaluation>>
    /\ UNCHANGED scrape

\* "Setup Collection" was clicked.
Step1Setup ==
    /\ pc = "step1"
    /\ clicked = "setup"
    /\ collection_name # ""
    /\ \E e \in CreateAnswers(collection_name) :
         /\ collections' = IF e = NoExc THEN collections \cup {collection_name}
                           ELSE collections
         /\ IF create_or_get_collection(e)
            THEN /\ session_state' =
                      Put(Put(session_state, "setup_success_message", e),
                          "selected_collection", collection_name)
                 /\ Rerun
            ELSE /\ session_state' = Del(session_state, "setup_success_message")
                 /\ pc' = "step2"
                 /\ shown' = SetupButton
                 /\ UNCHANGED <<clicked, snapshot, snapshot_corpus>>
    /\ UNCHANGED <<archive, benchmark, docs, widgets, now, locals, observed,
                   session_before>>
    /\ UNCHANGED <<fetch, progress, evaluation>>
    /\ UNCHANGED scrape

\* No click on "Setup Collection": the pending success message is shown
\* and deleted.
Step1 ==
    /\ pc = "step1"
    /\ ~(clicked = "setup" /\ collection_name # "")
    /\ session_state' = Del(session_state, "setup_success_message")
    /\ pc' = "step2"
    /\ shown' = SetupButton
    /\ UNCHANGED <<remote, widgets, clicked, now, locals, snapshot,
                   snapshot_corpus, observed, session_before>>
    /\ UNCHANGED <<fetch, progress, evaluation>>
    /\ UNCHANGED scrape

\* ------------------------------------------------------------ Step 2

Step2Entered ==
    collection_name # "" /\ "selected_collection" \in DOMAIN session_state

\* Step 2 is not entered, or the collection is not found (or listing the
\* collections raised).
Step2Skipped ==
    /\ pc = "step2"
    /\ \/ ~Step2Entered
       \/ /\ Step2Entered
          /\ \E ok \in BOOLEAN :
               ~(ok /\ session_state["selected_collection"] \in collections)
    /\ pc' = "step3"
    /\ UNCHANGED <<remote, session_state, widgets, shown, clicked, now, locals,
                   snapshot, snapshot_corpus, observed, session_before>>
    /\ UNCHANGED <<fetch, progress, evaluation>>
    /\ UNCHANGED scrape

\* The corpus is looked up in the collection, and the branch of the result
\* is rendered.
Step2Check ==
    /\ pc = "step2"
    /\ Step2Entered
    /\ session_state["selected_collection"] \in collections
    /\ \E ok \in BOOLEAN :
         LET r == check_corpus_indexed(ok, docs, corpus_selector)
             corpus_indexed == r[1]
             indexed_count == r[2]
             total_count == r[3]
         IN  IF CorpusReady(corpus_indexed, indexed_count, total_count)
             THEN /\ session_state' =
                       Put(session_state, "selected_corpus", corpus_selector)
                  /\ pc' = "step3"
                  /\ UNCHANGED <<shown, clicked, snapshot, snapshot_corpus>>
             ELSE IF CorpusPartial(corpus_indexed, indexed_count, total_count)
             THEN IF clicked = "check_status"
                  THEN /\ session_state' =
                            Put(session_state, "selected_corpus", corpus_selector)
                       /\ Rerun
                  ELSE IF clicked = "force_reindex"
                  THEN /\ session_state' =
                            Put(Put(Put(session_state, "selected_corpus",
                                        corpus_selector),
                                    "force_reindex", TRUE),
                                "show_indexing", TRUE)
                       /\ Rerun
                  ELSE /\ session_state' =
                            Put(session_state, "selected_corpus", corpus_selector)
                       /\ pc' = "step3"
                       /\ shown' = shown \cup {"check_status", "force_reindex"}
                       /\ UNCHANGED <<clicked, snapshot, snapshot_corpus>>
             ELSE /\ UNCHANGED <<session_state, clicked>>
                  /\ shown' = shown \cup {"download"}
                  /\ IF clicked = "download"
                     THEN /\ pc' = "download"
                          /\ snapshot' = r
                          /\ snapshot_corpus' = corpus_selector
                     ELSE /\ pc' = "step3"
                          /\ UNCHANGED <<snapshot, snapshot_corpus>>
    /\ UNCHANGED <<remote, widgets, now, locals, observed, session_before>>
    /\ UNCHANGED <<fetch, progress, evaluation>>
    /\ UNCHANGED scrape

\* ------------------------------------------------------------ the download

\* The click on "Download & Index Corpus" is handled: the temporary
\* directory is made.
DownloadBegin ==
    /\ pc = "download"
    /\ pc' = "fetching"
    /\ temp_dir' = TRUE
    /\ UNCHANGED <<remote, session_state, widgets, shown, clicked, now, locals,
                   snapshot, snapshot_corpus, observed, session_before,
                   warnings, fetch_failed, progress, evaluation>>
    /\ UNCHANGED scrape

\* download_corpus raises (the response is not 2xx, the network fails, the
\* archive is corrupt): the with block is left, st.error, st.stop().
DownloadFails ==
    /\ pc = "fetching"
    /\ temp_dir' = TemporaryDirectoryExit(temp_dir)
    /\ fetch_failed' = TRUE
    /\ st_stop(shown)
    /\ UNCHANGED <<remote, session_state, widgets, now, locals, observed,
                   session_before, warnings, progress, evaluation>>
    /\ UNCHANGED scrape

\* The archive is downloaded and extracted; the upload loop is set up.
Download ==
    /\ pc = "fetching"
    /\ documents_to_process' =
         download_corpus(corpus_selector, archive[corpus_selector])
    /\ warnings' = download_warnings(archive[corpus_selector])
    /\ temp_dir' = TemporaryDirectoryExit(temp_dir)
    /\ UNCHANGED <<fetch_failed, progress_placeholder, progress_fell, ticks,
                   status_container, evaluation>>
    /\ progress_bar' = NewBar
    /\ now' = 0
    /\ download_time' = 0
    /\ total_tokens' = 0
    /\ successful_docs' = 0
    /\ failed_docs' = 0
    /\ i' = 0
    /\ answers' = <<>>
    /\ submitted' = <<>>
    /\ handed' = {}
    /\ pc' = "upload"
    /\ UNCHANGED <<remote, session_state, widgets, shown, clicked, upload_time,
                   monitoring_start_time, snapshot, snapshot_corpus,
                   outcome, query_failed, full_in_time, session_before>>
    /\ UNCHANGED scrape

\* ------------------------------------------------------------ the upload loop

\* One iteration of the upload loop.
UploadDocument ==
    /\ pc = "upload"
    /\ i < Len(documents_to_process)
    /\ LET doc == documents_to_process[i + 1]
           doc_path == DocPath(doc)
       IN  /\ total_tokens' = total_tokens + count_tokens(doc.content)
           /\ \E e \in AddAnswers(docs[doc_path]) :
                /\ docs' = IF e = NoExc THEN [docs EXCEPT ![doc_path] = "hidden"]
                           ELSE docs
                /\ successful_docs' =
                     IF e = NoExc THEN successful_docs + 1 ELSE successful_docs
                /\ failed_docs' =
                     IF CountsAsFailed(e) THEN failed_docs + 1 ELSE failed_docs
                /\ answers' = Append(answers, e)
                /\ handed' = IF e \in {NoExc, ExcConflict}
                             THEN handed \cup {doc_path} ELSE handed
           /\ submitted' = Append(submitted, doc_path)
    /\ progress_bar' = progress_bar_progress(i, Len(documents_to_process))
    /\ i' = i + 1
    /\ UNCHANGED <<archive, benchmark, collections, session_state, widgets,
                   shown, clicked,
                   pc, now, documents_to_process, download_time, upload_time,
                   monitoring_start_time, snapshot, snapshot_corpus,
                   outcome, query_failed, full_in_time, session_before>>
    /\ UNCHANGED <<fetch, progress_placeholder, progress_fell, ticks,
                   status_container, evaluation>>
    /\ UNCHANGED scrape

\* The loop is over: the upload is reported and the monitoring loop set up.
\* The locals of the upload loop are dead from here on.
UploadComplete ==
    /\ pc = "upload"
    /\ UploadLoopDone(i, Len(documents_to_process))
    /\ upload_time' = now - download_time
    /\ monitoring_start_time' = now
    /\ outcome' = None
    /\ query_failed' = FALSE
    /\ full_in_time' = Full(docs, corpus_selector)
    /\ session_before' = session_state
    /\ pc' = "poll"
    /\ documents_to_process' = <<>>
    /\ i' = 0
    /\ successful_docs' = 0
    /\ failed_docs' = 0
    /\ answers' = <<>>
    /\ submitted' = <<>>
    /\ UNCHANGED <<remote, session_state, widgets, shown, clicked, now,
                   total_tokens, download_time, snapshot, snapshot_corpus,
                   handed>>
    /\ UNCHANGED <<fetch, evaluation>>
    /\ progress_bar' = EmptyBar
    /\ progress_fell' = FALSE
    /\ progress_placeholder' = EmptyPlaceholder
    /\ ticks' = 0
    /\ status_container' = EmptyContainer
    /\ UNCHANGED scrape

\* ------------------------------------------------------------ the monitoring loop

\* The loop's top: the timeout is reached, the loop is left.
PollTimeout ==
    /\ pc = "poll"
    /\ TimedOut(now - monitoring_start_time)
    /\ outcome' = "TimedOut"
    /\ pc' = "poll_exit"
    /\ UNCHANGED <<remote, session_state, widgets, shown, clicked, now, locals,
                   snapshot, snapshot_corpus, answers, submitted, handed,
                   query_failed, full_in_time, session_before>>
    /\ status_container' = TimeoutWarning
    /\ UNCHANGED <<fetch, progress_placeholder, progress_fell, ticks,
                   progress_bar, evaluation>>
    /\ UNCHANGED scrape

\* One status check of the loop.  check_corpus_indexed catches what the
\* status query raises and answers (False, 0, 0), so the loop's own except
\* clause is never entered from it.
PollCheck ==
    /\ pc = "poll"
    /\ ~TimedOut(now - monitoring_start_time)
    /\ \E ok \in BOOLEAN, latency \in Latencies :
         LET r == check_corpus_indexed(ok, docs, corpus_selector)
             indexed_count == r[2]
             total_count == r[3]
             elapsed_time == now - monitoring_start_time
             total_time == now + latency
         IN  /\ snapshot' = r
             /\ snapshot_corpus' = corpus_selector
             /\ now' = now + latency
             /\ query_failed' = (query_failed \/ ~ok)
             /\ ticks' = ticks + 1
             /\ IF IndexingComplete(indexed_count, total_count)
                THEN /\ progress_placeholder' = EmptyPlaceholder
                     /\ session_state' =
                          Put(Put(session_state, "performance_stats",
                                  PerformanceStats(total_time, download_time,
                                                   upload_time, total_count,
                                                   total_tokens)),
                              "selected_corpus", corpus_selector)
                     /\ outcome' = "Converged"
                     /\ pc' = "poll_exit"
                     /\ status_container' = CompleteMessage(total_count)
                     /\ UNCHANGED progress_fell
                ELSE /\ progress_placeholder' =
                          ProgressReport(indexed_count, total_count,
                                         elapsed_time)
                     /\ progress_fell' =
                          (progress_fell \/
                           LowerFraction(progress_placeholder,
                                         progress_placeholder'))
                     /\ pc' = "sleep"
                     /\ UNCHANGED <<session_state, outcome, status_container>>
    /\ UNCHANGED <<remote, widgets, shown, clicked, locals, answers, submitted,
                   handed, full_in_time, session_before, fetch, evaluation,
                   progress_bar>>
    /\ UNCHANGED scrape

\* time.sleep(check_interval)
PollSleep ==
    /\ pc = "sleep"
    /\ now' = now + check_interval
    /\ pc' = "poll"
    /\ UNCHANGED <<remote, session_state, widgets, shown, clicked, locals,
                   snapshot, snapshot_corpus, observed, session_before>>
    /\ UNCHANGED <<fetch, progress, evaluation>>
    /\ UNCHANGED scrape

\* What the loop's rules name the way it ended: a failed status query ends
\* the loop Errored.
SpecOutcome == IF query_failed THEN "Errored" ELSE outcome

\* After the loop: st.rerun().  The locals of the ingestion run are dead.
PollExit ==
    /\ pc = "poll_exit"
    /\ session_before' = [k \in {} |-> None]
    /\ Rerun
    /\ now' = 0
    /\ documents_to_process' = <<>>
    /\ i' = 0
    /\ successful_docs' = 0
    /\ failed_docs' = 0
    /\ total_tokens' = 0
    /\ download_time' = 0
    /\ upload_time' = 0
    /\ monitoring_start_time' = 0
    /\ answers' = <<>>
    /\ submitted' = <<>>
    /\ handed' = {}
    /\ outcome' = None
    /\ query_failed' = FALSE
    /\ full_in_time' = FALSE
    /\ UNCHANGED <<remote, session_state, widgets>>
    /\ UNCHANGED <<temp_dir, fetch_failed, evaluation>>
    /\ warnings' = 0
    /\ progress_fell' = FALSE
    /\ progress_placeholder' = EmptyPlaceholder
    /\ ticks' = 0
    /\ status_container' = EmptyContainer
    /\ UNCHANGED progress_bar
    /\ UNCHANGED scrape

\* ------------------------------------------------------------ Step 3

Step3Entered ==
    /\ collection_name # ""
    /\ Get(session_state, "selected_corpus") # None
    /\ "selected_collection" \in DOMAIN session_state

\* download_queries: the tests of the benchmark, or {} when the request or
\* the decoding raised.
download_queries(loaded, corpus) ==
    IF loaded THEN [tests |-> benchmark[corpus]] ELSE [k \in {} |-> None]

\* The queries are loaded when none are, or for another corpus.
MustLoadQueries(s, selected_corpus_key) ==
    \/ "queries_data" \notin DOMAIN s
    \/ Get(s, "current_corpus") # selected_corpus_key

\* queries[query_idx]: a list is indexed from 0, from the end by a negative
\* index, and raises IndexError otherwise.
CanIndex(queries, query_idx) ==
    /\ query_idx < Len(queries)
    /\ query_idx >= -Len(queries)

\* The query section of Step 3, from the session s with the stats shown
\* and deleted: the queries are loaded, a question is selected, and the
\* click on "Run Query" is handled.
QuerySection(s, selected_corpus_key, r) ==
    \E loaded \in BOOLEAN :
      LET queries_data == download_queries(loaded, selected_corpus_key)
      IN  IF MustLoadQueries(s, selected_corpus_key)
             /\ "tests" \notin DOMAIN queries_data
          THEN \* st.error("Failed to load queries data"); st.stop()
               /\ session_state' = s
               /\ UNCHANGED step3_error
               /\ EndRun(shown)
          ELSE
      LET s2 == IF MustLoadQueries(s, selected_corpus_key)
                THEN Put(Put(s, "queries_data", queries_data["tests"]),
                         "current_corpus", selected_corpus_key)
                ELSE s
          queries == s2["queries_data"]
          s3 == IF "selected_query_idx" \in DOMAIN s2 THEN s2
                ELSE Put(s2, "selected_query_idx", 0)
          query_idx == s3["selected_query_idx"]
      IN  /\ ~MustLoadQueries(s, selected_corpus_key) => loaded
          /\ IF clicked = "random_question"
             THEN IF Len(queries) = 0
                  THEN \* random.randint(0, -1) raises ValueError
                       /\ session_state' = s2
                       /\ step3_error' = "ValueError"
                       /\ EndRun(shown \cup {"random_question"})
                  ELSE /\ \E idx \in 0..(Len(queries) - 1) :
                            session_state' = Put(s2, "selected_query_idx", idx)
                       /\ UNCHANGED step3_error
                       /\ Rerun
             ELSE IF ~CanIndex(queries, query_idx)
             THEN /\ session_state' = s3
                  /\ step3_error' = "IndexError"
                  /\ EndRun(shown \cup {"random_question"})
             ELSE /\ session_state' =
                       Put(s3, "current_test", queries[query_idx + 1])
                  /\ UNCHANGED step3_error
                  /\ IF clicked = "run_query"
                     THEN /\ pc' = "query"
                          /\ shown' = shown \cup {"random_question", "run_query"}
                          /\ snapshot' = r
                          /\ snapshot_corpus' = selected_corpus_key
                          /\ UNCHANGED clicked
                     ELSE EndRun(shown \cup {"random_question", "run_query"})

Step3Skipped ==
    /\ pc = "step3"
    /\ ~Step3Entered
    /\ EndRun(shown)
    /\ UNCHANGED <<remote, session_state, widgets, now, locals, observed,
                   session_before>>
    /\ UNCHANGED <<fetch, progress, evaluation>>
    /\ UNCHANGED scrape

\* The corpus of the session is looked up again; the query section is
\* rendered when it is fully indexed.
Step3Check ==
    /\ pc = "step3"
    /\ Step3Entered
    /\ \E ok \in BOOLEAN :
         LET selected_corpus_key == session_state["selected_corpus"]
             r == check_corpus_indexed(ok, docs, selected_corpus_key)
             corpus_indexed == r[1]
             indexed_count == r[2]
             total_count == r[3]
         IN  IF Step3Blocked(corpus_indexed, indexed_count, total_count)
             THEN /\ UNCHANGED <<session_state, step3_error>>
                  /\ IF corpus_indexed /\ indexed_count < total_count
                     THEN IF clicked = "check_indexing"
                          THEN Rerun
                          ELSE EndRun(shown \cup {"check_indexing"})
                     ELSE EndRun(shown)
             ELSE QuerySection(Del(session_state, "performance_stats"),
                               selected_corpus_key, r)
    /\ UNCHANGED <<remote, widgets, now, locals, observed, session_before>>
    /\ UNCHANGED <<fetch, progress, results, expected_answers,
                   highlighted_contents, matches_found, query_page>>
    /\ UNCHANGED scrape

\* client.queries.top_snippets is called; it answers or raises.  The
\* results it answers are matched against the expected answers and shown.
RunQuery ==
    /\ pc = "query"
    /\ \E ok \in BOOLEAN :
         IF ~ok
         THEN /\ matches_found' = 0
              /\ highlighted_contents' = <<>>
              /\ query_page' = QueryFailedPage
         ELSE IF results # <<>>
         THEN /\ matches_found' = CountMatches(results, expected_answers)
              /\ highlighted_contents' =
                   [k \in 1..Len(results) |->
                       Annotate(results[k], results[k],
                                expected_answers).highlighted_content]
              /\ query_page' = ResultsPage(Len(results), matches_found')
         ELSE /\ matches_found' = 0
              /\ highlighted_contents' = <<>>
              /\ query_page' = ResultsPage(0, 0)
    /\ EndRun(shown)
    /\ UNCHANGED <<remote, session_state, widgets, now, locals, observed,
                   session_before, fetch, progress, results, expected_answers,
                   step3_error>>
    /\ UNCHANGED scrape

\* ------------------------------------------------------------ the specification

Next ==
    \/ Remote
    \/ UserReruns
    \/ \E name \in CollectionNames \cup {""} : UserTypesCollectionName(name)
    \/ \E corpus \in PREDEFINED_CORPORA : UserSelectsCorpus(corpus)
    \/ \E button \in Buttons : UserClicks(button)
    \/ Step1FetchFails
    \/ Step1Setup
    \/ Step1
    \/ Step2Skipped
    \/ Step2Check
    \/ DownloadBegin
    \/ DownloadFails
    \/ Download
    \/ UploadDocument
    \/ UploadComplete
    \/ PollTimeout
    \/ PollCheck
    \/ PollSleep
    \/ PollExit
    \/ Step3Skipped
    \/ Step3Check
    \/ RunQuery

Spec == Init /\ [][Next]_vars

\* ------------------------------------------------------------ the download alone

\* The run in which the click on "Download & Index Corpus" is handled, for
\* the corpus "maud" not yet in the collection "default".
DownloadClicked ==
    /\ benchmark = OneTestEach
    /\ collections = {"default"}
    /\ session_state = [k \in {"selected_collection"} |-> "default"]
    /\ collection_name = "default"
    /\ corpus_selector = "maud"
    /\ shown = {"setup", "download"}
    /\ clicked = "download"
    /\ pc = "download"
    /\ snapshot = NoSnapshot
    /\ snapshot_corpus = "maud"
    /\ results = <<>>
    /\ expected_answers = <<>>
    /\ LocalsInit

\* The archive holds any files.
FetchInit ==
    /\ \E A \in ArchivesUpTo(MaxFiles) :
         archive = [c \in PREDEFINED_CORPORA |-> IF c = "maud" THEN A ELSE {}]
    /\ docs = [p \in Paths |-> "absent"]
    /\ DownloadClicked

FetchNext ==
    \/ DownloadBegin
    \/ DownloadFails
    \/ Download

FetchSpec == FetchInit /\ [][FetchNext]_vars

\* ------------------------------------------------------------ one ingestion run

\* time.time() is the system clock: it is set back while the monitoring
\* loop runs, within the number of ticks a loop with a steady clock makes.
ClockSetBack ==
    /\ pc \in {"poll", "sleep"}
    /\ now - monitoring_start_time > -MaxSetBack
    /\ ticks <= max_wait_time \div check_interval
    /\ now' = now - 1
    /\ UNCHANGED <<remote, session_state, widgets, shown, clicked, pc, locals,
                   snapshot, snapshot_corpus, observed, session_before, fetch,
                   progress, evaluation>>
    /\ UNCHANGED scrape

IngestInit ==
    /\ archive = [c \in PREDEFINED_CORPORA |->
                     IF c = "maud" THEN IngestFiles ELSE {}]
    /\ docs = [p \in IngestPaths |-> "absent"]
    /\ DownloadClicked

IngestNext ==
    \/ DownloadBegin
    \/ DownloadFails
    \/ Download
    \/ UploadDocument
    \/ UploadComplete
    \/ Remote
    \/ ClockSetBack
    \/ PollTimeout
    \/ PollCheck
    \/ PollSleep

IngestSpec == IngestInit /\ [][IngestNext]_vars

\* ------------------------------------------------------------ one run, scheduled

\* The run in which the click on "Download & Index Corpus" is handled, for
\* any archive and whatever the collection already holds of the corpus.
LoopInit ==
    /\ \E A \in Archives("maud") :
         archive = [c \in PREDEFINED_CORPORA |-> IF c = "maud" THEN A ELSE {}]
    /\ docs \in [Paths -> {"absent", "indexed"}]
    /\ DownloadClicked

\* A step of the script: main() runs on one thread, statement after
\* statement, every call returning before the next is made.
RunStep ==
    \/ DownloadBegin
    \/ DownloadFails
    \/ Download
    \/ UploadDocument
    \/ UploadComplete
    \/ PollTimeout
    \/ PollCheck
    \/ PollSleep

LoopNext == RunStep \/ Remote

\* The script is not suspended for ever: its next statement is executed.
LoopSpec == LoopInit /\ [][LoopNext]_vars /\ WF_vars(RunStep)

\* ------------------------------------------------------------ one query

\* The run in which the click on "Run Query" is handled, the corpus "maud"
\* fully indexed.
QueryClicked ==
    /\ archive = [c \in PREDEFINED_CORPORA |-> CandidateFiles(c)]
    /\ docs = [p \in Paths |-> "indexed"]
    /\ benchmark = OneTestEach
    /\ collections = {"default"}
    /\ session_state = [k \in {"selected_collection", "selected_corpus"} |->
                           IF k = "selected_collection" THEN "default" ELSE "maud"]
    /\ collection_name = "default"
    /\ corpus_selector = "maud"
    /\ shown = {"setup", "run_query"}
    /\ clicked = "run_query"
    /\ pc = "query"
    /\ snapshot = <<TRUE, MaxDocs, MaxDocs>>
    /\ snapshot_corpus = "maud"
    /\ LocalsInit

QueryNext == RunQuery

\* The remote answers up to MaxResults results, matched against up to
\* MaxAnswers expected answers.
MatchInit ==
    /\ results \in SeqsUpTo(MatchContents, MaxResults)
    /\ expected_answers \in SeqsUpTo(MatchAnswers, MaxAnswers)
    /\ QueryClicked

MatchSpec == MatchInit /\ [][QueryNext]_vars

\* The remote answers one result of any content, highlighted for up to
\* MaxHighlights expected answers.
HighlightInit ==
    /\ results \in {<<content>> : content \in HighlightContents}
    /\ expected_answers \in SeqsUpTo(HighlightAnswers, MaxHighlights) \ {<<>>}
    /\ QueryClicked

HighlightSpec == HighlightInit /\ [][QueryNext]_vars

\* ------------------------------------------------------------ the query section

\* Both corpora are fully indexed in the collection "default", which is set
\* up; the benchmarks hold up to MaxQueries tests each.  The user selects
\* corpora, asks for random questions and runs queries.
SelectPaths == {<<c, 1, ".txt">> : c \in PREDEFINED_CORPORA}

SelectInit ==
    /\ archive = [c \in PREDEFINED_CORPORA |-> CandidateFiles(c)]
    /\ \E n \in [PREDEFINED_CORPORA -> 0..MaxQueries] :
         benchmark = [c \in PREDEFINED_CORPORA |-> Tests(c, n[c])]
    /\ collections = {"default"}
    /\ docs = [p \in SelectPaths |-> "indexed"]
    /\ session_state = [k \in {"selected_collection"} |-> "default"]
    /\ collection_name = "default"
    /\ corpus_selector = "maud"
    /\ shown = {}
    /\ clicked = None
    /\ pc = "step1"
    /\ snapshot = NoSnapshot
    /\ snapshot_corpus = None
    /\ results = << <<"a", "m">> >>
    /\ expected_answers = << <<"a">> >>
    /\ LocalsInit

SelectNext ==
    \/ UserReruns
    \/ \E corpus \in PREDEFINED_CORPORA : UserSelectsCorpus(corpus)
    \/ \E button \in {"random_question", "run_query"} : UserClicks(button)
    \/ Step1
    \/ Step2Skipped
    \/ Step2Check
    \/ Step3Skipped
    \/ Step3Check
    \/ RunQuery

SelectSpec == SelectInit /\ [][SelectNext]_vars

\* ------------------------------------------------------------ the scraping run

\* main() of the script looks up the owner of a repository.
GetUserEmail(username) ==
    /\ lookups < MaxLookups
    /\ \E response \in Responses :
         LET got == get_user_email(email_cache, username, response)
         IN  /\ email_cache' = got.email_cache
             /\ lookup' = [username |-> username, value |-> got.value,
                           requested |-> got.requested]
             /\ request_failed' =
                  IF ~got.requested THEN request_failed
                  ELSE IF response.ok THEN request_failed \ {username}
                  ELSE request_failed \cup {username}
    /\ lookups' = lookups + 1
    /\ UNCHANGED <<remote, session_state, widgets, shown, clicked, pc, now,
                   locals, snapshot, snapshot_corpus, observed, session_before,
                   fetch, progress, evaluation>>

ScrapeInit == Init

ScrapeNext == \E username \in Usernames : GetUserEmail(username)

ScrapeSpec == ScrapeInit /\ [][ScrapeNext]_vars

\* ------------------------------------------------------------ the claims

UploadOver == pc = "upload" /\ i = Len(documents_to_process)
LoopLeft == pc = "poll_exit"
SnapshotFull == snapshot[3] > 0 /\ snapshot[2] = snapshot[3]

\* C1: if the remote has reported total > 0 and indexed = total since an
\* instant within max_wait_time of the loop's start, and no status query
\* failed, the monitoring loop ends Converged.
C1_ConvergesWhenIndexedInTime ==
    (LoopLeft /\ full_in_time /\ ~query_failed) => outcome = "Converged"

\* C2: if a document handed to the remote in this run is not indexed when
\* the loop is left, the loop ended TimedOut.
C2_TimedOutWhenOneNeverIndexed ==
    (LoopLeft /\ \E p \in handed : docs[p] # "indexed") => outcome = "TimedOut"

\* C3: the loop is left Converged exactly on a snapshot with total > 0 and
\* indexed = total, and then fetches no further status; on any other
\* snapshot it stays in the loop, sleeps and comes back to the loop's top.
C3_TransitionRules ==
    /\ pc \in {"sleep", "poll_exit"} =>
         ((LoopLeft /\ outcome = "Converged") <=> SnapshotFull)
    /\ LoopLeft => ~ENABLED PollCheck
    /\ pc = "sleep" => ENABLED PollSleep /\ outcome = None

C3_Witness ==
    LoopLeft /\ outcome = "Converged" /\ snapshot = <<TRUE, 2, 2>>

\* C4: once a status query of the loop has failed, the loop has been left,
\* Errored.
C4_FailedQueryEndsLoop ==
    (pc \in {"poll", "sleep", "poll_exit"} /\ query_failed) =>
        (LoopLeft /\ SpecOutcome = "Errored" /\ outcome # "TimedOut"
                  /\ outcome # "Converged")

\* C5: when the loop is left Converged, the indexed documents of the
\* snapshot are as many as the documents handed to the remote in this run.
C5_ConvergedCoversSubmitted ==
    (LoopLeft /\ outcome = "Converged") => snapshot[2] = Cardinality(handed)

\* C6: a loop that ended otherwise than TimedOut leaves a session state
\* other than the one a timeout leaves, which is the state the loop began
\* with: the outcomes can be told apart from what the loop leaves behind.
C6_OutcomesDistinguishable ==
    (LoopLeft /\ SpecOutcome # "TimedOut") => session_state # session_before

\* C7: a retrieval query is sent only when the latest status snapshot was
\* taken for the corpus of the session and reported total > 0 and
\* indexed = total.
C7_QueryOnlyWhenIndexed ==
    pc = "query" =>
        /\ snapshot_corpus = Get(session_state, "selected_corpus")
        /\ SnapshotFull

C7_Witness ==
    pc = "query" /\ snapshot = <<TRUE, 2, 2>> /\ snapshot_corpus = "maud"

\* C8: after the upload loop, succeeded + failed is the number of documents
\* processed, and with no error other than conflicts succeeded is that
\* number and failed is 0: a conflict counts as succeeded.
C8_ConflictCountsAsSucceeded ==
    UploadOver =>
        /\ successful_docs + failed_docs = i
        /\ (\A k \in 1..i : answers[k] # ExcOther) =>
               (successful_docs = i /\ failed_docs = 0)

\* C9: an upload loop whose submissions were all answered with a conflict
\* reports failed = 0, and a submission answered with a conflict leaves the
\* set of documents the remote holds as it was.
Held == {p \in DOMAIN docs : docs[p] # "absent"}

C9_ReuploadIdempotent ==
    /\ [](UploadOver /\ (\A k \in 1..i : answers[k] = ExcConflict)
            => failed_docs = 0)
    /\ [][(pc = "upload" /\ i' = i + 1 /\ answers'[i'] = ExcConflict)
            => (failed_docs' = failed_docs /\ Held' = Held)]_vars

C9_Witness ==
    UploadOver /\ i = 2 /\ (\A k \in 1..i : answers[k] = ExcConflict)

Fetched == pc = "upload" /\ i = 0 /\ ~fetch_failed

C11_IdsDistinct ==
    Fetched =>
        \A j, k \in 1..Len(documents_to_process) :
            j # k => documents_to_process[j].id # documents_to_process[k].id

\* C12: the catalog holds one document for each file named .txt or .json
\* that decodes and is not empty after trimming, in discovery order, and
\* one warning is recorded for each other file named .txt or .json.
C12_OnePerReadableFile ==
    Fetched =>
        LET files == archive[corpus_selector]
            w == SelectSeq(Walk(files),
                           LAMBDA f : f.ext \in {".txt", ".json"}
                                      /\ f.body = "text")
            skipped == {f \in files : f.ext \in {".txt", ".json"}
                                      /\ f.body # "text"}
        IN  /\ Len(documents_to_process) = Len(w)
            /\ \A k \in 1..Len(w) :
                 documents_to_process[k].filename = <<w[k].stem, w[k].ext>>
            /\ warnings = Cardinality(skipped)

\* C13: the temporary directory exists only while the archive is fetched:
\* it is gone once the download step is over, with a catalog or with a
\* failure, and so before any document is uploaded.
C13_TempDirReleased ==
    /\ temp_dir <=> pc = "fetching"
    /\ fetch_failed => ~temp_dir
    /\ pc \in {"upload", "poll", "sleep", "poll_exit"} => ~temp_dir

C13_Witness ==
    /\ pc = "upload" /\ i = 1 /\ Len(documents_to_process) = 2 /\ ~temp_dir

\* C14: a failed download ends the run: no document has been submitted, no
\* status poll started, and the failing step leaves the remote index and
\* the session state as they were.
C14_FailedFetchAbortsRun ==
    /\ [](fetch_failed =>
            (pc = "idle" /\ submitted = <<>> /\ outcome = None))
    /\ [][(pc = "fetching" /\ fetch_failed')
            => (docs' = docs /\ session_state' = session_state)]_vars

C14_Witness ==
    fetch_failed /\ pc = "idle" /\ archive["maud"] # {}

\* C15: a recorded performance_stats has indexing_time = total_time -
\* download_time - upload_time and indexing_time >= 0.
C15_IndexingTimeNotNegative ==
    "performance_stats" \in DOMAIN session_state =>
        LET stats == session_state["performance_stats"]
        IN  /\ stats.indexing_time =
                 stats.total_time - stats.download_time - stats.upload_time
            /\ stats.indexing_time >= 0

\* C16: in a monitoring loop that ends Converged, no tick showed a lower
\* fraction indexed/total than the tick before it.
C16_ProgressMonotone ==
    (LoopLeft /\ outcome = "Converged") => ~progress_fell

\* C17: after every tick that fetched a status with total > 0, the ending
\* one included, the page shows the fraction indexed/total of that status
\* and the elapsed time.
C17_EveryTickReportsProgress ==
    (pc \in {"sleep", "poll_exit"} /\ outcome # "TimedOut" /\ snapshot[3] > 0) =>
        /\ progress_placeholder.kind = "progress"
        /\ progress_placeholder.indexed_count = snapshot[2]
        /\ progress_placeholder.total_count = snapshot[3]

\* The answer occurs in the content at the 0-based index k, letter by
\* letter, the case of the letters aside.
MatchesAt(answer, content, k) ==
    /\ k + Len(answer) <= Len(content)
    /\ \A j \in 1..Len(answer) : LowerChar(content[k + j]) = LowerChar(answer[j])

OccursIn(answer, content) ==
    \E k \in 0..Len(content) : MatchesAt(answer, content, k)

\* The query was answered and its results are shown.
Answered == pc = "idle" /\ results # <<>> /\ highlighted_contents # <<>>

\* C18: the number of matches of an answered query is the number of pairs
\* (result, expected answer) with the answer occurring in the result's
\* content, the case of the letters aside.
C18_MatchesWithMultiplicity ==
    Answered =>
        matches_found =
            Cardinality({pair \in (1..Len(results)) \X (1..Len(expected_answers)) :
                            OccursIn(expected_answers[pair[2]], results[pair[1]])})

C18_Witness ==
    /\ Answered
    /\ Len(results) = 3
    /\ Len(expected_answers) = 2
    /\ matches_found = 2
    /\ \E j \in 1..2 :
         Cardinality({k \in 1..3 : OccursIn(expected_answers[j], results[k])}) = 2

\* C19: highlighting one answer that occurs in the content gives the
\* content with the first occurrence wrapped in one marker pair, every
\* other character as it was, and the answer is counted as a match; an
\* answer that does not occur leaves the content as it is.
C19_FirstOccurrenceWrapped ==
    (Answered /\ Len(expected_answers) = 1) =>
        LET content == results[1]
            answer == expected_answers[1]
            at == {k \in 0..Len(content) : MatchesAt(answer, content, k)}
        IN  IF at # {}
            THEN LET first == CHOOSE k \in at : \A h \in at : k <= h
                 IN  /\ highlighted_contents[1] =
                          SubSeq(content, 1, first)
                          \o MarkOpen
                          \o SubSeq(content, first + 1, first + Len(answer))
                          \o MarkClose
                          \o SubSeq(content, first + Len(answer) + 1, Len(content))
                     /\ matches_found = 1
            ELSE /\ highlighted_contents[1] = content
                 /\ matches_found = 0

\* C20: the highlighted content of a result holds one intact marker pair
\* for each expected answer that occurs in the result's content.
Occurrences(sub, str) ==
    Cardinality({k \in 0..Len(str) : OccursAt(sub, str, k)})

C20_OneMarkerPairPerAnswer ==
    Answered =>
        LET content == results[1]
            found == {j \in 1..Len(expected_answers) :
                         OccursIn(expected_answers[j], content)}
            shown_content == highlighted_contents[1]
        IN  /\ Occurrences(MarkOpen, shown_content) = Cardinality(found)
            /\ Occurrences(MarkClose, shown_content) = Cardinality(found)
            /\ Len(shown_content) =
                 Len(content)
                 + Cardinality(found) * (Len(MarkOpen) + Len(MarkClose))

\* C22: one ingestion run is strictly sequential: documents are submitted
\* only after the download is over, the loop's status queries are made only
\* after every document was submitted and answered, and a status query is
\* over before the sleep and the next status query.
C22_StrictlySequential ==
    /\ [](pc \in {"download", "fetching"} =>
            submitted = <<>> /\ ticks = 0)
    /\ [](pc = "upload" => ~temp_dir /\ ticks = 0 /\ Len(answers) = Len(submitted))
    /\ [][/\ Len(submitted') > Len(submitted) =>
               pc = "upload" /\ pc' = "upload" /\ ~temp_dir
          /\ (pc = "upload" /\ pc' = "poll") =>
               /\ Len(submitted) = Len(documents_to_process)
               /\ Len(answers) = Len(submitted)
          /\ ticks' > ticks =>
               /\ pc = "poll"
               /\ pc' \in {"sleep", "poll_exit"}
               /\ ticks' = ticks + 1
          /\ (pc = "sleep" /\ pc' # "sleep") => pc' = "poll" /\ ticks' = ticks]_vars

C22_Witness == pc = "sleep" /\ ticks = 2 /\ Cardinality(handed) = 2

\* C23: the monitoring loop terminates; it is left TimedOut only with more
\* than max_wait_time elapsed; the sleep between two status queries is
\* check_interval; and when the status queries took no time the loop is
\* left no later than max_wait_time + check_interval after its start, after
\* at most max_wait_time \div check_interval + 1 status queries.
Elapsed == now - monitoring_start_time

Sleeps == IF outcome = "Converged" THEN ticks - 1 ELSE ticks

QueriesTookNoTime == Elapsed = Sleeps * check_interval

C23_LoopTerminatesWithinBound ==
    /\ []((LoopLeft /\ outcome = "TimedOut") => Elapsed > max_wait_time)
    /\ [][pc = "sleep" /\ pc' # "sleep" =>
              pc' = "poll" /\ now' = now + check_interval]_vars
    /\ []((LoopLeft /\ QueriesTookNoTime) =>
            /\ Elapsed <= max_wait_time + check_interval
            /\ ticks <= (max_wait_time \div check_interval) + 1)
    /\ (InLoop ~> LoopLeft)

C23_Witness ==
    /\ LoopLeft
    /\ outcome = "TimedOut"
    /\ QueriesTookNoTime
    /\ ticks = (max_wait_time \div check_interval) + 1

\* C24: when the loop is left TimedOut, what it reports carries the counts
\* of the last status snapshot, and no step of the loop writes on the
\* remote index.
C24_TimedOutCarriesLastCounts ==
    /\ []((LoopLeft /\ outcome = "TimedOut") =>
            status_container.counts = <<snapshot[2], snapshot[3]>>)
    /\ [][(InLoop /\ pc' # pc) => UNCHANGED remote]_vars

\* C25: the upload loop updates the progress bar once per document, to i/n
\* after the i-th of n documents, whatever the remote answered; the bar
\* rises with every document and is full when the loop is over.
C25_UploadProgress ==
    /\ []((pc = "upload" /\ i > 0) =>
            /\ progress_bar.kind = "bar"
            /\ progress_bar.done = i
            /\ progress_bar.of = Len(documents_to_process))
    /\ []((UploadOver /\ i > 0) => progress_bar.done = progress_bar.of)
    /\ [][(pc = "upload" /\ i' = i + 1) =>
              /\ progress_bar' # progress_bar
              /\ progress_bar'.done * progress_bar.of
                   > progress_bar.done * progress_bar'.of]_vars

C25_Witness ==
    /\ UploadOver
    /\ i = 2
    /\ progress_bar.done = 2
    /\ progress_bar.of = 2
    /\ \E k \in 1..Len(answers) : answers[k] # NoExc

\* C27: a run whose archive yields no document, in a collection that holds
\* no document of the corpus, submits nothing, never converges, and leaves
\* the loop TimedOut.
NothingToIndex ==
    /\ archive[corpus_selector] = {}
    /\ \A p \in DOMAIN docs : docs[p] = "absent"

C27_EmptyCatalogTimesOut ==
    /\ [](NothingToIndex =>
            /\ submitted = <<>>
            /\ outcome # "Converged"
            /\ (LoopLeft => outcome = "TimedOut" /\ Elapsed > max_wait_time))
    /\ ((NothingToIndex /\ pc = "upload") ~> (LoopLeft /\ outcome = "TimedOut"))

C27_Witness == NothingToIndex /\ LoopLeft /\ outcome = "TimedOut"

\* C26: setting up a collection succeeds when the collection was created
\* and when the remote answered that it exists, and fails on any other
\* error; selected_collection is stored by a successful setup only, and
\* Step 2, the ingestion run and the query are entered only with it stored.
SetupSucceeded == "setup_success_message" \in DOMAIN session_state

HasStats(s) == "performance_stats" \in DOMAIN s

C28_StatsOnlyOnConverged ==
    /\ [](HasStats(session_state) =>
            session_state["performance_stats"].total_count > 0)
    /\ []((LoopLeft /\ outcome # "Converged") => session_state = session_before)
    /\ [][/\ (/\ HasStats(session_state')
              /\ \/ ~HasStats(session_state)
                 \/ session_state'["performance_stats"]
                      # session_state["performance_stats"]) =>
               /\ pc = "poll"
               /\ pc' = "poll_exit"
               /\ outcome' = "Converged"
               /\ SnapshotFull'
          /\ (HasStats(session_state) /\ ~HasStats(session_state')) =>
               /\ pc = "step3"
               /\ Full(docs, session_state["selected_corpus"])]_vars

C28_Witness ==
    /\ pc = "step3"
    /\ HasStats(session_state)
    /\ session_state["performance_stats"].total_count = 2
    /\ Full(docs, session_state["selected_corpus"])

\* C29: the download is begun only on a click on "Download & Index Corpus"
\* in a run whose status snapshot for the selected corpus reported no
\* document; the upload and the monitoring loop are entered only from the
\* download; a run that handles "Force Reindex" writes nothing on the
\* remote and begins no download.
C29_PipelineOnlyFromZero ==
    /\ [](pc \in {"download", "fetching"} =>
            /\ snapshot[3] = 0
            /\ snapshot_corpus = corpus_selector)
    /\ [][/\ (pc' = "download" /\ pc # "download") =>
               /\ pc = "step2"
               /\ clicked = "download"
               /\ snapshot'[3] = 0
          /\ (pc' = "fetching" /\ pc # "fetching") => pc = "download"
          /\ (pc' = "upload" /\ pc # "upload") => pc = "fetching"
          /\ (pc' = "poll" /\ pc # "poll") => pc \in {"upload", "sleep"}
          /\ (pc = "step2" /\ pc' # pc /\ clicked = "force_reindex") =>
               /\ UNCHANGED remote
               /\ pc' \in {"step1", "step3"}]_vars

C29_Witness ==
    /\ pc = "step1"
    /\ "force_reindex" \in DOMAIN session_state
    /\ check_corpus_indexed(TRUE, docs, corpus_selector)[3] = 2
    /\ check_corpus_indexed(TRUE, docs, corpus_selector)[2] = 1

\* C21: when the query call raised, one error is on the page, no result is
\* shown and the match count is 0; the handler of "Run Query" leaves the
\* session state as it was, with the collection, the corpus, the queries
\* and the selected question in it, and "Run Query" can be clicked again.
QueryFailed == query_page.errors > 0

C21_FailedQueryLeavesSessionUsable ==
    /\ [](QueryFailed =>
            /\ query_page.errors = 1
            /\ query_page.results = 0
            /\ highlighted_contents = <<>>
            /\ matches_found = 0
            /\ {"selected_collection", "selected_corpus", "queries_data",
                "selected_query_idx"} \subseteq DOMAIN session_state
            /\ pc = "idle"
            /\ ENABLED UserClicks("run_query"))
    /\ [][pc = "query" => session_state' = session_state]_vars

C21_Witness == QueryFailed /\ pc = "idle" /\ "run_query" \in shown

\* C30: Step 3 never indexes the loaded queries with a selected_query_idx
\* that is not an index of theirs, nor draws a random question from none:
\* no run of Step 3 ends with an exception.
C30_SelectedIndexValid == step3_error = None

\* C31: a lookup returns a value whether or not its request failed; a
\* lookup for a username whose last request failed issues the request
\* again; a lookup for a username with an email in the cache is answered
\* from the cache without a request.
LookedUp == lookups' = lookups + 1

HasEmail(cache, username) ==
    /\ username \in DOMAIN cache
    /\ cache[username] \in Emails

C31_CacheMissRetryable ==
    /\ [](lookups > 0 => lookup.value \in Emails \cup {NotFound, NotFoundNoEvents})
    /\ [][LookedUp =>
            /\ lookup'.username \in request_failed => lookup'.requested
            /\ HasEmail(email_cache, lookup'.username) =>
                 /\ ~lookup'.requested
                 /\ lookup'.value = email_cache[lookup'.username]]_vars

=============================================================================
